---- MODULE Spec2Model ----
(***************************************************************************)
(* Model of src/app.py: the product-trace Flask application.               *)
(*   admin_new_product (POST) : generate_trace_id, build ProductTrace,     *)
(*                              commit, generate_qr, set path, commit      *)
(*   trace_page               : query by trace_id, 404 or log ScanLog      *)
(* Every request is a short-lived unit of work against the shared SQLite   *)
(* store and the filesystem; requests interleave at their store and        *)
(* filesystem calls.  Strings that the code parses are sequences of        *)
(* one-character strings; None is Python's None / SQL NULL.                *)
(***************************************************************************)
EXTENDS Integers, Sequences, FiniteSets, TLC

(* ----------------------------- bounds --------------------------------- *)
NumAdmins == 2
NumLookups == 2
MaxTime == 1
TicksPerDay == 1
MaxCalls == 3

Admins == 1..NumAdmins
Lookups == 1..NumLookups

(* Python's None / SQL NULL, one stand-in per type of value *)
None == "None"
NoneStr == <<"<None>">>
NoRow == 0
NoPath == <<>>
NoId == <<>>

(* uuid.uuid4().hex[:6].upper(): the values the random source may give *)
RandOrder == <<"A1B2C3", "00FF00", "7E57ED">>
RandPool == {RandOrder[i] : i \in 1..Len(RandOrder)}

VARIABLES now, products, scanlogs, dirs, files,
          apc, form, product, arow, qr_path, aerr,
          lpc, ltid, lrow, lerr,
          qrcalls

vars == <<now, products, scanlogs, dirs, files,
          apc, form, product, arow, qr_path, aerr,
          lpc, ltid, lrow, lerr, qrcalls>>

storeVars == <<products, scanlogs>>
fsVars == <<dirs, files>>
adminVars == <<apc, form, product, arow, qr_path, aerr>>
lookupVars == <<lpc, ltid, lrow, lerr>>

(* ------------------------- pure functions ----------------------------- *)
(* datetime.now().strftime("%Y%m%d"): the day the clock reading falls in *)
DateStr(t) == t \div TicksPerDay

(* generate_trace_id: "P" + date + 6 random characters *)
generate_trace_id(t, rand) == <<"P", DateStr(t), rand>>

base_url == "https://zj-1008.github.io/trace-system/trace_page.html?trace_id="

(* url = base_url + trace_id *)
QrUrl(trace_id) == <<base_url, trace_id>>

(* os.path.join("static", "qrcodes") *)
save_dir == <<"static", "qrcodes">>

(* a file name that avoids overwriting: numbered by the files present *)
QrPathNumbered(trace_id) == Append(save_dir, <<trace_id, Cardinality(files), ".png">>)

(* os.path.join(save_dir, f"{trace_id}.png") *)
QrPath(trace_id) == Append(save_dir, <<trace_id, ".png">>)


(* ---- int(): Python's integer parser on a string of characters ---- *)
Digits == {"0", "1", "2", "3", "4", "5", "6", "7", "8", "9"}

DigitVal(c) ==
    CASE c = "0" -> 0 [] c = "1" -> 1 [] c = "2" -> 2 [] c = "3" -> 3
      [] c = "4" -> 4 [] c = "5" -> 5 [] c = "6" -> 6 [] c = "7" -> 7
      [] c = "8" -> 8 [] c = "9" -> 9

RECURSIVE LStrip(_)
LStrip(s) == IF s # <<>> /\ Head(s) = " " THEN LStrip(Tail(s)) ELSE s

RECURSIVE RStrip(_)
RStrip(s) ==
    IF s # <<>> /\ s[Len(s)] = " " THEN RStrip(SubSeq(s, 1, Len(s) - 1)) ELSE s

Strip(s) == RStrip(LStrip(s))

RECURSIVE DigitsValue(_, _)
DigitsValue(s, acc) ==
    IF s = <<>> THEN acc ELSE DigitsValue(Tail(s), 10 * acc + DigitVal(Head(s)))

AllDigits(s) == s # <<>> /\ \A i \in 1..Len(s) : s[i] \in Digits

(* the result of a conversion: a value, or the ValueError it raised *)
Value(n) == [err |-> FALSE, val |-> n]
ValueError == [err |-> TRUE, val |-> 0]

(* int(s) for a str s: surrounding blanks dropped, one optional sign, then *)
(* at least one digit; anything else raises ValueError                     *)
PyInt(s) ==
    LET t == Strip(s)
        signed == t # <<>> /\ Head(t) \in {"-", "+"}
        body == IF signed THEN Tail(t) ELSE t
    IN  IF ~AllDigits(body) THEN ValueError
        ELSE IF signed /\ Head(t) = "-" THEN Value(0 - DigitsValue(body, 0))
        ELSE Value(DigitsValue(body, 0))

(* int(request.form.get("warranty_months") or 0): None and "" are falsy *)
WarrantyMonths(raw) == IF raw = NoneStr \/ raw = <<>> THEN Value(0) ELSE PyInt(raw)

(* ----------------------------- inputs --------------------------------- *)
(* request.form of a POST: the fields the model follows *)
WarrantyInputs == {NoneStr, <<>>, <<"1", "2">>, <<"a", "b">>}

FormWith(name, raw) == [product_name |-> name, model |-> "X1", warranty_months |-> raw]

Forms == {FormWith("Widget", raw) : raw \in WarrantyInputs}
             \cup {FormWith(None, <<"1", "2">>)}

(* identifiers a public caller may ask for: every one the generator can   *)
(* produce and one it never produces                                      *)
LookupIds ==
    {generate_trace_id(t, RandOrder[i]) : t \in 0..MaxTime, i \in 1..2}
        \cup {<<"P", 0, "AAAAAA">>}

(* request.remote_addr and the User-Agent header of a lookup request *)
RemoteAddr(l) == <<"10.0.0.", l>>
UserAgent(l) == IF l = 1 THEN "" ELSE "Mozilla"

(* --------------------------- store queries ---------------------------- *)
(* rows whose trace_id is the given one *)
RowsWith(trace_id) == {i \in 1..Len(products) : products[i].trace_id = trace_id}

(* ProductTrace.query.filter_by(trace_id=...).first(): lowest row or None *)
QueryFirst(trace_id) ==
    IF RowsWith(trace_id) = {} THEN NoRow
    ELSE CHOOSE i \in RowsWith(trace_id) : \A j \in RowsWith(trace_id) : i <= j

(* the column declared without unique=True *)
UniqueOff(trace_id) == TRUE

(* unique=True on trace_id: the insert is accepted only for a new key *)
UniqueOk(trace_id) == RowsWith(trace_id) = {}

(* nullable=False on product_name *)
NotNullOk(p) == p.product_name # None

(* os.makedirs(save_dir, exist_ok=True): an existing directory is no error *)
MakedirsOk == TRUE

(* ------------------------------ Init ---------------------------------- *)
NoForm == [product_name |-> None, model |-> None, warranty_months |-> NoneStr]
NoProduct == [trace_id |-> NoId, product_name |-> None, model |-> None, warranty_months |-> 0]

Init ==
    /\ now = 0
    /\ products = <<>>
    /\ scanlogs = <<>>
    /\ dirs = FALSE
    /\ files = {}
    /\ apc = [a \in Admins |-> "start"]
    /\ form = [a \in Admins |-> NoForm]
    /\ product = [a \in Admins |-> NoProduct]
    /\ arow = [a \in Admins |-> NoRow]
    /\ qr_path = [a \in Admins |-> NoPath]
    /\ aerr = [a \in Admins |-> None]
    /\ lpc = [l \in Lookups |-> "start"]
    /\ ltid = [l \in Lookups |-> NoId]
    /\ lrow = [l \in Lookups |-> NoRow]
    /\ lerr = [l \in Lookups |-> None]
    /\ qrcalls = <<>>

(* requests are numbered in the order they arrive: request n starts only *)
(* when request n - 1 has started                                        *)
Arrived(pc, n) == IF n = 1 THEN TRUE ELSE pc[n - 1] # "start"

(* the random source gives a value some request has drawn before (the    *)
(* collision case) or a new one; new values are interchangeable, so the  *)
(* first unused one of the pool stands for them                          *)
UsedRands == {product[a].trace_id[3] : a \in {b \in Admins : product[b] # NoProduct}}
NextRands ==
    LET unused == {i \in 1..Len(RandOrder) : RandOrder[i] \notin UsedRands}
    IN  UsedRands \cup {RandOrder[i] : i \in {j \in unused : \A k \in unused : j <= k}}

(* ------------------------- the clock ---------------------------------- *)
(* time passes; two readings of the clock with no Tick between are equal *)
Tick ==
    /\ now < MaxTime
    /\ now' = now + 1
    /\ UNCHANGED <<storeVars, fsVars, adminVars, lookupVars, qrcalls>>

(* --------------------- admin_new_product (POST) ----------------------- *)
(* lines 105-124: generate the trace id and build the ProductTrace object; *)
(* int() may raise ValueError, which ends the request with a 500           *)
Submit(a, f, rand) ==
    /\ apc[a] = "start"
    /\ Arrived(apc, a)
    /\ rand \in NextRands
    /\ form' = [form EXCEPT ![a] = f]
    /\ LET trace_id == generate_trace_id(now, rand)
           w == WarrantyMonths(f.warranty_months)
       IN  IF w.err
           THEN /\ apc' = [apc EXCEPT ![a] = "resp500"]
                /\ aerr' = [aerr EXCEPT ![a] = "ValueError"]
                /\ UNCHANGED product
           ELSE /\ apc' = [apc EXCEPT ![a] = "built"]
                /\ product' = [product EXCEPT ![a] =
                       [trace_id |-> trace_id,
                        product_name |-> f.product_name,
                        model |-> f.model,
                        warranty_months |-> w.val]]
                /\ UNCHANGED aerr
    /\ UNCHANGED <<now, storeVars, fsVars, arow, qr_path, lookupVars, qrcalls>>

(* the row the first commit writes: qr_image_path is still NULL, both *)
(* timestamps default to the clock reading                            *)
NewRow(p, id, t) ==
    [id |-> id,
     trace_id |-> p.trace_id,
     product_name |-> p.product_name,
     model |-> p.model,
     warranty_months |-> p.warranty_months,
     qr_image_path |-> NoPath,
     created_at |-> t,
     updated_at |-> t]

(* lines 127-128: db.session.add(product); db.session.commit().  A NULL   *)
(* product_name or an existing trace_id raises IntegrityError; the        *)
(* handler has no except clause, so the request ends with a 500           *)
InsertCommit(a) ==
    /\ apc[a] = "built"
    /\ IF ~NotNullOk(product[a])
       THEN /\ apc' = [apc EXCEPT ![a] = "resp500"]
            /\ aerr' = [aerr EXCEPT ![a] = "IntegrityError:NOTNULL"]
            /\ UNCHANGED <<products, arow>>
       ELSE IF ~UniqueOk(product[a].trace_id)
       THEN /\ apc' = [apc EXCEPT ![a] = "resp500"]
            /\ aerr' = [aerr EXCEPT ![a] = "IntegrityError:UNIQUE"]
            /\ UNCHANGED <<products, arow>>
       ELSE /\ products' = Append(products, NewRow(product[a], Len(products) + 1, now))
            /\ arow' = [arow EXCEPT ![a] = Len(products) + 1]
            /\ apc' = [apc EXCEPT ![a] = "inserted"]
            /\ UNCHANGED aerr
    /\ form' = [form EXCEPT ![a] = NoForm]
    /\ UNCHANGED <<now, scanlogs, fsVars, product, qr_path, lookupVars, qrcalls>>

(* line 128 when the store cannot write (locked or full database) *)
InsertFail(a) ==
    /\ apc[a] = "built"
    /\ apc' = [apc EXCEPT ![a] = "resp500"]
    /\ aerr' = [aerr EXCEPT ![a] = "OperationalError"]
    /\ form' = [form EXCEPT ![a] = NoForm]
    /\ UNCHANGED <<now, storeVars, fsVars, product, arow, qr_path, lookupVars, qrcalls>>

(* the image generated as soon as the object is built, before the commit *)
BeforeInsert(a) == apc[a] \in {"built", "inserted"}

(* lines 126-131: the image step follows the commit of the insert *)
AfterInsert(a) == apc[a] = "inserted"

(* lines 80-82: img.save(file_path) writes, or overwrites, the one file *)
QrSave(trace_id) ==
    {f \in files : f.path # QrPath(trace_id)}
        \cup {[path |-> QrPath(trace_id), data |-> QrUrl(trace_id)]}

(* line 131, generate_qr(trace_id): make the directory, save the image, *)
(* return the path                                                      *)
GenerateQr(a) ==
    /\ AfterInsert(a)
    /\ MakedirsOk
    /\ dirs' = TRUE
    /\ files' = QrSave(product[a].trace_id)
    /\ qr_path' = [qr_path EXCEPT ![a] = QrPath(product[a].trace_id)]
    /\ apc' = [apc EXCEPT ![a] = "encoded"]
    /\ UNCHANGED <<now, storeVars, form, product, arow, aerr, lookupVars, qrcalls>>

(* the failed image step undoing the insert *)
GenerateQrFailRollback(a) ==
    /\ AfterInsert(a)
    /\ products' = SelectSeq(products, LAMBDA r : r.id # arow[a])
    /\ apc' = [apc EXCEPT ![a] = "resp500"]
    /\ aerr' = [aerr EXCEPT ![a] = "EncodingError"]
    /\ UNCHANGED <<now, scanlogs, fsVars, form, product, arow, qr_path, lookupVars, qrcalls>>

(* line 131 when generate_qr raises: at makedirs (nothing written) or at *)
(* img.save (the directory exists by then).  The exception leaves the    *)
(* handler; the row committed at line 128 is not touched                 *)
GenerateQrFail(a) ==
    /\ AfterInsert(a)
    /\ \E atSave \in BOOLEAN : dirs' = (dirs \/ atSave)
    /\ apc' = [apc EXCEPT ![a] = "resp500"]
    /\ aerr' = [aerr EXCEPT ![a] = "EncodingError"]
    /\ UNCHANGED <<now, storeVars, files, form, product, arow, qr_path, lookupVars, qrcalls>>

(* the update addressed to the newest row of the table *)
UpdateNewest(a) == Len(products)

(* the row the handler's session object stands for *)
UpdateTarget(a) == arow[a]

(* lines 132-133: product.qr_image_path = qr_path; db.session.commit(); *)
(* onupdate refreshes updated_at; then the redirect                     *)
UpdateCommit(a) ==
    /\ apc[a] = "encoded"
    /\ products' = [products EXCEPT ![UpdateTarget(a)] =
                       [@ EXCEPT !.qr_image_path = qr_path[a], !.updated_at = now]]
    /\ apc' = [apc EXCEPT ![a] = "done"]
    /\ UNCHANGED <<now, scanlogs, fsVars, form, product, arow, qr_path, aerr, lookupVars, qrcalls>>

(* line 133 when the store cannot write: the update is lost, the row stays *)
UpdateFail(a) ==
    /\ apc[a] = "encoded"
    /\ apc' = [apc EXCEPT ![a] = "resp500"]
    /\ aerr' = [aerr EXCEPT ![a] = "OperationalError"]
    /\ UNCHANGED <<now, storeVars, fsVars, form, product, arow, qr_path, lookupVars, qrcalls>>

(* --------------------------- trace_page ------------------------------- *)
(* the handler without the abort *)
MissingIgnored(row) == FALSE

(* line 148: if not product: abort(404) *)
Missing(row) == row = NoRow

(* lines 147-149: the query and the 404 branch *)
Query(l, trace_id) ==
    /\ lpc[l] = "start"
    /\ Arrived(lpc, l)
    /\ ltid' = [ltid EXCEPT ![l] = trace_id]
    /\ lrow' = [lrow EXCEPT ![l] = QueryFirst(trace_id)]
    /\ lpc' = [lpc EXCEPT ![l] =
                  IF Missing(QueryFirst(trace_id)) THEN "resp404" ELSE "found"]
    /\ UNCHANGED <<now, storeVars, fsVars, adminVars, lerr, qrcalls>>

(* default=datetime.utcnow() evaluated once, when the module is loaded *)
NewLogSharedDefault(l, id, t) ==
    [id |-> id,
     trace_id |-> ltid[l],
     ip_address |-> RemoteAddr(l),
     user_agent |-> UserAgent(l),
     scanned_at |-> 0]

(* the ScanLog row of lines 152-156; scanned_at defaults to the clock *)
NewLog(l, id, t) ==
    [id |-> id,
     trace_id |-> ltid[l],
     ip_address |-> RemoteAddr(l),
     user_agent |-> UserAgent(l),
     scanned_at |-> t]

(* lines 157-160: add the log, commit, render the page *)
LogCommit(l) ==
    /\ lpc[l] = "found"
    /\ scanlogs' = Append(scanlogs, NewLog(l, Len(scanlogs) + 1, now))
    /\ lpc' = [lpc EXCEPT ![l] = "resp200"]
    /\ UNCHANGED <<now, products, fsVars, adminVars, ltid, lrow, lerr, qrcalls>>

(* line 158 when the store cannot write: the exception is not caught, so *)
(* the request ends with a 500 and the page is never rendered            *)
LogFail(l) ==
    /\ lpc[l] = "found"
    /\ lpc' = [lpc EXCEPT ![l] = "resp500"]
    /\ lerr' = [lerr EXCEPT ![l] = "OperationalError"]
    /\ UNCHANGED <<now, storeVars, fsVars, adminVars, ltid, lrow, qrcalls>>

(* ------------------------- specification ------------------------------ *)
(* Spec: the submissions race each other and one public lookup, all     *)
(* within one reading of the clock                                       *)
Next ==
    \/ \E a \in Admins, f \in Forms, r \in RandPool : Submit(a, f, r)
    \/ \E a \in Admins : InsertCommit(a)
    \/ \E a \in Admins : InsertFail(a)
    \/ \E a \in Admins : GenerateQr(a)
    \/ \E a \in Admins : GenerateQrFail(a)
    \/ \E a \in Admins : UpdateCommit(a)
    \/ \E a \in Admins : UpdateFail(a)
    \/ \E l \in {1}, t \in LookupIds : Query(l, t)
    \/ \E l \in {1} : LogCommit(l)
    \/ \E l \in {1} : LogFail(l)

Spec == Init /\ [][Next]_vars

(* SpecClock: one submission, the public lookups racing it and each     *)
(* other, and the clock running                                          *)
NextClock ==
    \/ Tick
    \/ \E a \in {1}, f \in Forms, r \in RandPool : Submit(a, f, r)
    \/ \E a \in {1} : InsertCommit(a)
    \/ \E a \in {1} : InsertFail(a)
    \/ \E a \in {1} : GenerateQr(a)
    \/ \E a \in {1} : GenerateQrFail(a)
    \/ \E a \in {1} : UpdateCommit(a)
    \/ \E a \in {1} : UpdateFail(a)
    \/ \E l \in Lookups, t \in LookupIds : Query(l, t)
    \/ \E l \in Lookups : LogCommit(l)
    \/ \E l \in Lookups : LogFail(l)

SpecClock == Init /\ [][NextClock]_vars

(* ------------- generate_qr on its own, called repeatedly -------------- *)
FileExists(trace_id) == \E f \in files : f.path = QrPath(trace_id)

(* one call of generate_qr(trace_id) that returns its path *)
QrCall(trace_id) ==
    /\ Len(qrcalls) < MaxCalls
    /\ MakedirsOk
    /\ dirs' = TRUE
    /\ files' = QrSave(trace_id)
    /\ qrcalls' = Append(qrcalls,
           [trace_id |-> trace_id, existed |-> dirs /\ FileExists(trace_id),
            fault |-> FALSE, ok |-> TRUE, path |-> QrPath(trace_id)])
    /\ UNCHANGED <<now, storeVars, adminVars, lookupVars>>

(* one call that raises: the filesystem refuses the write (fault), or *)
(* makedirs itself objects                                            *)
QrCallFail(trace_id, fault) ==
    /\ Len(qrcalls) < MaxCalls
    /\ fault \/ ~MakedirsOk
    /\ qrcalls' = Append(qrcalls,
           [trace_id |-> trace_id, existed |-> dirs /\ FileExists(trace_id),
            fault |-> fault, ok |-> FALSE, path |-> NoPath])
    /\ UNCHANGED <<now, storeVars, fsVars, adminVars, lookupVars>>

NextQr ==
    \/ \E t \in LookupIds : QrCall(t)
    \/ \E t \in LookupIds, fault \in BOOLEAN : QrCallFail(t, fault)

SpecQr == Init /\ [][NextQr]_vars

(* ============================ properties ============================== *)
Rows == 1..Len(products)
HasRow(a) == arow[a] \in Rows /\ products[arow[a]].trace_id = product[a].trace_id

(* C1: in every reachable state no two rows of the product table have the *)
(* same trace_id, whatever the interleaving of submissions and lookups    *)
C1_UniqueTraceId ==
    \A i \in Rows, j \in Rows : i # j => products[i].trace_id # products[j].trace_id

(* a submission drew an identifier already stored and was refused, while a *)
(* lookup has run                                                           *)
C1_Witness ==
    /\ \E a \in Admins : aerr[a] = "IntegrityError:UNIQUE"
    /\ \E l \in Lookups : lpc[l] # "start"
    /\ Len(products) >= 1

(* C2: a submission whose insert was refused for a duplicate key          *)
(* regenerates, retries and ends with a persisted record of its own       *)
C2_CollisionRetried ==
    \A a \in Admins : aerr[a] = "IntegrityError:UNIQUE" => arow[a] # NoRow

(* C3: a lookup of an identifier with no row ends in 404 and that step    *)
(* leaves the scan log as it was; a request answered 404 does nothing more *)
C3_NotFoundLogsNothing ==
    [][\A l \in Lookups :
         /\ (lpc[l] = "start" /\ lpc'[l] # "start" /\ RowsWith(ltid'[l]) = {})
               => (lpc'[l] = "resp404" /\ scanlogs' = scanlogs)
         /\ lpc[l] = "resp404" => lpc'[l] = "resp404"]_vars

(* a lookup of an absent identifier was answered 404 while the table has rows *)
C3_Witness ==
    \E l \in Lookups :
        lpc[l] = "resp404" /\ RowsWith(ltid[l]) = {} /\ Len(products) >= 1

C5_LogFailureHidden ==
    \A l \in Lookups : lerr[l] = "OperationalError" => lpc[l] = "resp200"

(* C6: a row once committed stays in the table whatever error follows; a  *)
(* submission whose image step failed keeps its row, with an empty        *)
(* qr_image_path, and the row is the one a lookup of its trace_id finds   *)
C6_RecordSurvivesEncodingFailure ==
    /\ \A a \in Admins : arow[a] # NoRow => HasRow(a)
    /\ \A a \in Admins :
          aerr[a] = "EncodingError" =>
             /\ HasRow(a)
             /\ products[arow[a]].qr_image_path = NoPath
             /\ QueryFirst(product[a].trace_id) = arow[a]

(* the image step of a submission failed and a lookup of its identifier   *)
(* was then answered with the row                                         *)
C6_Witness ==
    \E a \in Admins, l \in Lookups :
        /\ aerr[a] = "EncodingError"
        /\ lpc[l] = "resp200"
        /\ ltid[l] = product[a].trace_id
        /\ products[lrow[l]].qr_image_path = NoPath

(* absent, empty or non-numeric raw warranty_months *)
AbsentEmptyOrNonNumeric(raw) == raw = NoneStr \/ raw = <<>> \/ PyInt(raw).err

(* C7: a submission whose warranty_months is absent, empty or non-numeric *)
(* is not rejected by the coercion; its object carries warranty_months 0  *)
C7_WarrantyDefaultsToZero ==
    \A a \in Admins :
        (apc[a] \in {"built", "resp500"} /\ AbsentEmptyOrNonNumeric(form[a].warranty_months))
            => (aerr[a] # "ValueError"
                /\ (apc[a] = "built" => product[a].warranty_months = 0))

(* C8: any two calls of generate_qr that return for the same identifier   *)
(* return the same path, and a call that finds directory and file in      *)
(* place and meets no filesystem fault returns                            *)
C8_EncodeIdempotentOnPath ==
    /\ \A i \in 1..Len(qrcalls), j \in 1..Len(qrcalls) :
          (qrcalls[i].ok /\ qrcalls[j].ok /\ qrcalls[i].trace_id = qrcalls[j].trace_id)
              => qrcalls[i].path = qrcalls[j].path
    /\ \A i \in 1..Len(qrcalls) :
          (qrcalls[i].existed /\ ~qrcalls[i].fault) => qrcalls[i].ok

(* generate_qr returned twice for one identifier, the second time with    *)
(* directory and file already present                                     *)
C8_Witness ==
    \E i \in 1..Len(qrcalls), j \in 1..Len(qrcalls) :
        /\ i < j
        /\ qrcalls[i].ok /\ qrcalls[j].ok
        /\ qrcalls[i].trace_id = qrcalls[j].trace_id
        /\ qrcalls[j].existed

(* C9: no two submissions write the same image path; a submission that    *)
(* wrote an image holds an accepted row of its own, and one refused for a *)
(* duplicate key wrote none                                               *)
C9_ImagePathsPartitioned ==
    /\ \A a \in Admins, b \in Admins :
          (a # b /\ qr_path[a] # NoPath /\ qr_path[b] # NoPath) => qr_path[a] # qr_path[b]
    /\ \A a \in Admins : qr_path[a] # NoPath => HasRow(a)
    /\ \A a \in Admins : aerr[a] = "IntegrityError:UNIQUE" => qr_path[a] = NoPath

(* two submissions drew the same identifier: one wrote its image, the     *)
(* other was refused at the insert                                        *)
C9_Witness ==
    \E a \in Admins, b \in Admins :
        /\ a # b
        /\ product[a].trace_id = product[b].trace_id
        /\ qr_path[a] # NoPath
        /\ aerr[b] = "IntegrityError:UNIQUE"

====
